---- MODULE Spec2Model ----
(***************************************************************************)
(* Model of scripts/prepare_gdpr.py: the normalizer clean_gdpr_text, the   *)
(* structural extractor generate_expected_json and the driver main.        *)
(*                                                                         *)
(* A text is a sequence of one-character strings.  Every regular           *)
(* expression of the script is modelled by a left-to-right scan that       *)
(* computes what Python's re module computes for that pattern (leftmost    *)
(* match, greedy quantifiers, non-overlapping matches).                    *)
(***************************************************************************)
EXTENDS Integers, Sequences, FiniteSets, TLC

VARIABLES
    argc,        \* len(sys.argv)
    flag,        \* sys.argv[3] == '--generate-expected' (when argc >= 4)
    pc,          \* position of the run
    files,       \* path -> content of the file at that path
    files0,      \* the files as they were when the run started
    handles,     \* paths of the file objects that are open
    text,        \* the local variable text of the function that is running
    stats,       \* the dict returned by clean_gdpr_text
    expected,    \* the dict built by generate_expected_json
    exit_status  \* -1 while running, then the status of the process

vars == <<argc, flag, pc, files, files0, handles, text, stats, expected, exit_status>>

----------------------------------------------------------------------------
(* Characters and sequences                                                *)

NL == "\n"

Digit == {"0", "1", "2", "3", "4", "5", "6", "7", "8", "9"}

\* [ \t] of line 29
HSpace == {" ", "\t"}

\* \s of lines 33 and 120, and what str.strip() removes
Space == {" ", "\t", "\n", "\r", "\f"}

\* the quote class of def_pattern, line 120: the straight single quote, the
\* curly single quotes U+2018 and U+2019 (written lsq and rsq here) and the
\* straight double quote (written dq)
Quote == {"'", "lsq", "rsq", "dq"}

SetMax(S) == CHOOSE x \in S : \A y \in S : y <= x

SetMin(S) == CHOOSE x \in S : \A y \in S : x <= y

\* The characters of a string literal are written out as a sequence.
Article_ == <<"A", "r", "t", "i", "c", "l", "e", " ">>

CHAPTER_ == <<"C", "H", "A", "P", "T", "E", "R", " ">>

\* whether the literal lit occurs in t at index i
HasAt(t, i, lit) ==
    /\ i >= 1
    /\ i + Len(lit) - 1 <= Len(t)
    /\ \A k \in 1..Len(lit) : t[i + k - 1] = lit[k]

\* the last index of the longest run of characters of class cls that starts
\* at i; i - 1 when t[i] is not of the class (a greedy cls* at i)
RunEnd(t, i, cls) ==
    LET stops == {k \in i..Len(t) : t[k] \notin cls}
    IN  IF stops = {} THEN Len(t) ELSE SetMin(stops) - 1

\* ^ under re.MULTILINE
LineStart(t, i) == i = 1 \/ (i > 1 /\ i <= Len(t) + 1 /\ t[i - 1] = NL)

\* $ under re.MULTILINE, tested at the position before index i
LineEnd(t, i) == i = Len(t) + 1 \/ (i <= Len(t) /\ t[i] = NL)

RECURSIVE ToInt(_)
\* int(digits)
ToInt(ds) ==
    IF ds = <<>> THEN 0
    ELSE 10 * ToInt(SubSeq(ds, 1, Len(ds) - 1))
         + (CHOOSE d \in 0..9 : <<"0", "1", "2", "3", "4", "5", "6", "7", "8", "9">>[d + 1] = ds[Len(ds)])

RECURSIVE ToStr(_)
\* str(n) of a natural number, as in the f-strings of lines 67 and 69
ToStr(n) ==
    IF n < 10 THEN <<<<"0", "1", "2", "3", "4", "5", "6", "7", "8", "9">>[n + 1]>>
    ELSE ToStr(n \div 10) \o ToStr(n % 10)

\* the first index from i on that holds a character of class cls;
\* Len(t) + 1 when there is none
FirstIn(t, i, cls) ==
    LET hits == {k \in i..Len(t) : t[k] \in cls}
    IN  IF hits = {} THEN Len(t) + 1 ELSE SetMin(hits)

RECURSIVE split(_, _)
\* the lines of t from index i on: text.split(NL)
split(t, i) ==
    LET e == FirstIn(t, i, {NL})
    IN  IF e > Len(t) THEN <<SubSeq(t, i, Len(t))>>
        ELSE <<SubSeq(t, i, e - 1)>> \o split(t, e + 1)

RECURSIVE join(_)
\* NL.join(ls)
join(ls) ==
    IF ls = <<>> THEN <<>>
    ELSE IF Len(ls) = 1 THEN ls[1]
    ELSE ls[1] \o <<NL>> \o join(Tail(ls))

\* s.strip()
strip(s) ==
    LET keep == {k \in 1..Len(s) : s[k] \notin Space}
    IN  IF keep = {} THEN <<>> ELSE SubSeq(s, SetMin(keep), SetMax(keep))

----------------------------------------------------------------------------
(* clean_gdpr_text, lines 23-40: the transformation steps                  *)

\* the index of the closing + of the match of \+[-+]+\+ that starts at i,
\* or 0 when the pattern does not match at i
RuleEnd(t, i) ==
    IF i > Len(t) \/ t[i] # "+" THEN 0
    ELSE LET e == RunEnd(t, i + 1, {"+", "-"})
             closing == {j \in (i + 2)..e : t[j] = "+"}
         IN  IF closing = {} THEN 0 ELSE SetMax(closing)

RECURSIVE sub_rules(_, _)
\* line 24: re.sub(r'\+[-+]+\+', '', text), from index i on
sub_rules(t, i) ==
    IF i > Len(t) THEN <<>>
    ELSE LET e == RuleEnd(t, i)
         IN  IF e > 0 THEN sub_rules(t, e + 1)
             ELSE <<t[i]>> \o sub_rules(t, i + 1)

\* line 25: re.sub(r'\|', '', text)
sub_bars(t) == SelectSeq(t, LAMBDA c : c # "|")

RECURSIVE sub_hspace(_, _)
\* line 29: re.sub(r'[ \t]+', ' ', line), from index i on
sub_hspace(line, i) ==
    IF i > Len(line) THEN <<>>
    ELSE IF line[i] \in HSpace
         THEN <<" ">> \o sub_hspace(line, RunEnd(line, i, HSpace) + 1)
         ELSE <<line[i]>> \o sub_hspace(line, i + 1)

\* line 29, one line
clean_line(line) == strip(sub_hspace(line, 1))

\* lines 28-30
clean_lines(t) ==
    LET lines == split(t, 1)
    IN  join([k \in 1..Len(lines) |-> clean_line(lines[k])])

\* the index of the ) of the match of ^\((\d+)\) that starts at i, or 0
MarkerEnd(t, i) ==
    IF ~(LineStart(t, i) /\ i <= Len(t) /\ t[i] = "(") THEN 0
    ELSE LET e == RunEnd(t, i + 1, Digit)
         IN  IF e >= i + 1 /\ e + 1 <= Len(t) /\ t[e + 1] = ")" THEN e + 1 ELSE 0

RECURSIVE sub_recital(_, _)
\* line 33: re.sub(r'^\((\d+)\)\s*', r'(\1) ', text, flags=re.MULTILINE)
sub_recital(t, i) ==
    IF i > Len(t) THEN <<>>
    ELSE LET m == MarkerEnd(t, i)
         IN  IF m > 0
             THEN SubSeq(t, i, m) \o <<" ">> \o sub_recital(t, RunEnd(t, m + 1, Space) + 1)
             ELSE <<t[i]>> \o sub_recital(t, i + 1)

RECURSIVE sub_newlines_4(_, _)
\* the pattern written \n{4,}: a run of three newlines is kept
sub_newlines_4(t, i) ==
    IF i > Len(t) THEN <<>>
    ELSE LET e == RunEnd(t, i, {NL})
         IN  IF e - i + 1 >= 4 THEN <<NL, NL>> \o sub_newlines_4(t, e + 1)
             ELSE <<t[i]>> \o sub_newlines_4(t, i + 1)

RECURSIVE sub_newlines(_, _)
\* line 37: re.sub(r'\n{3,}', '\n\n', text)
sub_newlines(t, i) ==
    IF i > Len(t) THEN <<>>
    ELSE LET e == RunEnd(t, i, {NL})
         IN  IF e - i + 1 >= 3 THEN <<NL, NL>> \o sub_newlines(t, e + 1)
             ELSE <<t[i]>> \o sub_newlines(t, i + 1)

\* line 40: text.lstrip(NL)
lstrip_newlines(t) == SubSeq(t, RunEnd(t, 1, {NL}) + 1, Len(t))

\* lines 23-40: the cleaned text of the raw text
clean_text(raw) ==
    lstrip_newlines(
        sub_newlines(
            sub_recital(
                clean_lines(sub_bars(sub_rules(raw, 1))), 1), 1))

----------------------------------------------------------------------------
(* clean_gdpr_text, lines 46-72: the statistics of the cleaned text        *)

\* the index of the last digit of the match of ^Article (\d+) that starts
\* at i, or 0 (line 48 without its $, line 94 without its tail)
ArticleHead(t, i) ==
    IF ~(LineStart(t, i) /\ HasAt(t, i, Article_)) THEN 0
    ELSE LET e == RunEnd(t, i + Len(Article_), Digit)
         IN  IF e >= i + Len(Article_) THEN e ELSE 0

\* the same for ^CHAPTER ([IVX]+) of lines 53 and 84
ChapterHead(t, i) ==
    IF ~(LineStart(t, i) /\ HasAt(t, i, CHAPTER_)) THEN 0
    ELSE LET e == RunEnd(t, i + Len(CHAPTER_), {"I", "V", "X"})
         IN  IF e >= i + Len(CHAPTER_) THEN e ELSE 0

RECURSIVE article_matches(_, _)
\* lines 48-49: re.findall(r'^Article (\d+)$', text, re.MULTILINE)
article_matches(t, i) ==
    IF i > Len(t) THEN <<>>
    ELSE LET e == ArticleHead(t, i)
         IN  IF e > 0 /\ LineEnd(t, e + 1)
             THEN <<SubSeq(t, i + Len(Article_), e)>> \o article_matches(t, e + 1)
             ELSE article_matches(t, i + 1)

RECURSIVE chapter_matches(_, _)
\* lines 53-54: re.findall(r'^CHAPTER ([IVX]+)$', text, re.MULTILINE)
chapter_matches(t, i) ==
    IF i > Len(t) THEN <<>>
    ELSE LET e == ChapterHead(t, i)
         IN  IF e > 0 /\ LineEnd(t, e + 1)
             THEN <<SubSeq(t, i + Len(CHAPTER_), e)>> \o chapter_matches(t, e + 1)
             ELSE chapter_matches(t, i + 1)

RECURSIVE recital_matches(_, _)
\* lines 57-58: re.findall(r'^\((\d+)\) ', text, re.MULTILINE)
recital_matches(t, i) ==
    IF i > Len(t) THEN <<>>
    ELSE LET m == MarkerEnd(t, i)
         IN  IF m > 0 /\ m + 1 <= Len(t) /\ t[m + 1] = " "
             THEN <<SubSeq(t, i + 1, m - 1)>> \o recital_matches(t, m + 2)
             ELSE recital_matches(t, i + 1)

\* lines 50 and 59: set(int(a) for a in matches)
unique_numbers(matches) == {ToInt(matches[k]) : k \in 1..Len(matches)}

\* lines 67 and 69: the range text of a set of numbers
range_text(unique) ==
    IF unique = {} THEN <<"n", "o", "n", "e">>
    ELSE ToStr(SetMin(unique)) \o <<"-">> \o ToStr(SetMax(unique))

\* lines 61-70: the statistics of the cleaned text t
clean_stats(t) ==
    LET unique_articles == unique_numbers(article_matches(t, 1))
        unique_recitals == unique_numbers(recital_matches(t, 1))
    IN  [total_lines   |-> Len(split(t, 1)),
         total_chars   |-> Len(t),
         chapters      |-> Len(chapter_matches(t, 1)),
         chapter_list  |-> chapter_matches(t, 1),
         articles      |-> Cardinality(unique_articles),
         article_range |-> range_text(unique_articles),
         recitals      |-> Cardinality(unique_recitals),
         recital_range |-> range_text(unique_recitals)]

----------------------------------------------------------------------------
(* generate_expected_json, lines 82-138                                    *)

RECURSIVE chapters_of(_, _)
\* lines 84-90: re.finditer(r'^CHAPTER ([IVX]+)\n\n(.+?)(?=\n\n|$)', ...).
\* The dot matches no newline and $ matches at every end of line, so the
\* lazy group stops at the end of the title's first line.
chapters_of(t, i) ==
    IF i > Len(t) THEN <<>>
    ELSE LET e == ChapterHead(t, i)
             s == e + 3
             z == FirstIn(t, s, {NL}) - 1
         IN  IF e > 0 /\ HasAt(t, e + 1, <<NL, NL>>) /\ s <= Len(t) /\ t[s] # NL
             THEN <<[number |-> SubSeq(t, i + Len(CHAPTER_), e),
                     title  |-> strip(SubSeq(t, s, z))]>> \o chapters_of(t, z + 1)
             ELSE chapters_of(t, i + 1)

RECURSIVE article_list(_, _)
\* lines 94-102: re.finditer(r'^Article (\d+)\n+([^\n]+)', text, re.MULTILINE)
article_list(t, i) ==
    IF i > Len(t) THEN <<>>
    ELSE LET e == ArticleHead(t, i)
             n == RunEnd(t, e + 1, {NL})
             s == n + 1
             z == FirstIn(t, s, {NL}) - 1
         IN  IF e > 0 /\ n >= e + 1 /\ s <= Len(t)
             THEN <<[number |-> ToInt(SubSeq(t, i + Len(Article_), e)),
                     title  |-> strip(SubSeq(t, s, z))]>> \o article_list(t, z + 1)
             ELSE article_list(t, i + 1)

\* lines 105-108: the first entry of each number
seen_articles(arts) ==
    {k \in 1..Len(arts) : \A j \in 1..(k - 1) : arts[j].number # arts[k].number}

RECURSIVE sorted_by_number(_, _)
\* line 109: sorted(seen_articles.values(), key=lambda x: x['number'])
sorted_by_number(arts, keep) ==
    IF keep = {} THEN <<>>
    ELSE LET k == CHOOSE x \in keep : \A y \in keep : arts[x].number <= arts[y].number
         IN  <<arts[k]>> \o sorted_by_number(arts, keep \ {k})

\* text.find(lit): the index of the first occurrence, 0 when there is none
\* (Python's -1)
find(t, lit) ==
    LET hits == {i \in 1..Len(t) : HasAt(t, i, lit)}
    IN  IF hits = {} THEN 0 ELSE SetMin(hits)

\* lines 114-117: text[art4_start:art5_start], or no window at all
art4_content(t) ==
    LET art4_start == find(t, <<NL>> \o Article_ \o <<"4", NL>>)
        art5_start == find(t, <<NL>> \o Article_ \o <<"5", NL>>)
    IN  IF art4_start # 0 /\ art5_start # 0
        THEN SubSeq(t, art4_start, art5_start - 1)
        ELSE <<>>

\* the index of the closing quote of the match of def_pattern (line 120)
\* that starts at i, or 0
DefEnd(w, i) ==
    IF i > Len(w) \/ w[i] # "(" THEN 0
    ELSE LET d == RunEnd(w, i + 1, Digit)
             q == RunEnd(w, d + 2, Space) + 1
             r == FirstIn(w, q + 1, Quote)
         IN  IF /\ d >= i + 1
                /\ d + 1 <= Len(w) /\ w[d + 1] = ")"
                /\ q <= Len(w) /\ w[q] \in Quote
                /\ r > q + 1 /\ r <= Len(w)
             THEN r ELSE 0

RECURSIVE definitions_of(_, _)
\* lines 121-125: re.finditer(def_pattern, art4_content)
definitions_of(w, i) ==
    IF i > Len(w) THEN <<>>
    ELSE LET r == DefEnd(w, i)
             d == RunEnd(w, i + 1, Digit)
             q == RunEnd(w, d + 2, Space) + 1
         IN  IF r > 0
             THEN <<[number |-> ToInt(SubSeq(w, i + 1, d)),
                     term   |-> strip(SubSeq(w, q + 1, r - 1))]>> \o definitions_of(w, r + 1)
             ELSE definitions_of(w, i + 1)

RECURSIVE definition_starts(_, _)
\* lines 121-125: where in the window each match of def_pattern starts
definition_starts(w, i) ==
    IF i > Len(w) THEN <<>>
    ELSE LET r == DefEnd(w, i)
         IN  IF r > 0 THEN <<i>> \o definition_starts(w, r + 1)
             ELSE definition_starts(w, i + 1)

\* lines 82-138: the record built from the text t
expected_of(t) ==
    LET chapters    == chapters_of(t, 1)
        found       == article_list(t, 1)
        articles    == sorted_by_number(found, seen_articles(found))
        definitions == definitions_of(art4_content(t), 1)
    IN  [regulation  |-> "GDPR",
         full_name   |-> "Regulation (EU) 2016/679",
         statistics  |-> [chapters    |-> Len(chapters),
                          articles    |-> Len(articles),
                          definitions |-> Len(definitions)],
         chapters    |-> chapters,
         articles    |-> articles,
         definitions |-> definitions]

----------------------------------------------------------------------------
(* Files and the run of main, lines 144-168                                *)

\* a path that names no file
Absent == [exists |-> FALSE, data |-> <<>>]

\* the file at a path after open(path, 'w'): created or truncated
Truncated == [exists |-> TRUE, data |-> <<>>]

File(d) == [exists |-> TRUE, data |-> d]

\* stats and expected before they are assigned
None == [none |-> TRUE]

\* a JSON document cut off by a failed write
PartOfDocument == [regulation |-> "GDPR"]

\* what the output paths may hold before the run
OldOutput == File(<<"o", "l", "d">>)

OldJson == File(<<[regulation |-> "old"]>>)

\* open(path, 'a'): what the file holds is kept
open_a(file) == IF file.exists THEN file ELSE Truncated

\* open(path, 'w') of lines 43 and 140: the file is created or truncated
open_w(file) == Truncated

\* a close() after the block instead of a with: skipped when the block raises
close_after(hs, path, raised) ==
    IF raised THEN hs ELSE SelectSeq(hs, LAMBDA h : h # path)

\* leaving a with block closes the file object, on return and on exception
with_exit(hs, path, raised) == SelectSeq(hs, LAMBDA h : h # path)

Running == exit_status = -1

\* an exception nobody catches: the traceback is printed and the status is 1;
\* pc stays at the statement that raised
Raise(path) ==
    /\ exit_status' = 1
    /\ handles' = with_exit(handles, path, TRUE)
    /\ UNCHANGED <<argc, flag, pc, files0, text, stats, expected>>

\* lines 145-147
Usage ==
    /\ Running /\ pc = "main" /\ argc < 3
    /\ exit_status' = 1
    /\ UNCHANGED <<argc, flag, pc, files, files0, handles, text, stats, expected>>

\* lines 149-153: the call of clean_gdpr_text
Start ==
    /\ Running /\ pc = "main" /\ argc >= 3
    /\ pc' = "open_input"
    /\ UNCHANGED <<argc, flag, files, files0, handles, text, stats, expected, exit_status>>

\* line 20: open(input_path, 'r')
OpenInput ==
    /\ Running /\ pc = "open_input"
    /\ \/ /\ files.input.exists
          /\ handles' = Append(handles, "input")
          /\ pc' = "read_input"
          /\ UNCHANGED <<argc, flag, files, files0, text, stats, expected, exit_status>>
       \/ Raise("none") /\ UNCHANGED files

\* line 21: text = f.read()
ReadInput ==
    /\ Running /\ pc = "read_input"
    /\ \/ /\ text' = files.input.data
          /\ pc' = "close_input"
          /\ UNCHANGED <<argc, flag, files, files0, handles, stats, expected, exit_status>>
       \/ Raise("input") /\ UNCHANGED files

\* line 20: the end of the with block
CloseInput ==
    /\ Running /\ pc = "close_input"
    /\ handles' = with_exit(handles, "input", FALSE)
    /\ pc' = "clean"
    /\ UNCHANGED <<argc, flag, files, files0, text, stats, expected, exit_status>>

\* lines 23-40
Clean ==
    /\ Running /\ pc = "clean"
    /\ text' = clean_text(text)
    /\ pc' = "open_output"
    /\ UNCHANGED <<argc, flag, files, files0, handles, stats, expected, exit_status>>

\* line 43: open(output_path, 'w') creates or truncates the file
OpenOutput ==
    /\ Running /\ pc = "open_output"
    /\ \/ /\ files' = [files EXCEPT !.output = open_w(files.output)]
          /\ handles' = Append(handles, "output")
          /\ pc' = "write_output"
          /\ UNCHANGED <<argc, flag, files0, text, stats, expected, exit_status>>
       \/ Raise("none") /\ UNCHANGED files

\* line 44: f.write(text); a write that fails may have written a part
WriteOutput ==
    /\ Running /\ pc = "write_output"
    /\ \/ /\ files' = [files EXCEPT !.output = File(files.output.data \o text)]
          /\ pc' = "close_output"
          /\ UNCHANGED <<argc, flag, files0, handles, text, stats, expected, exit_status>>
       \/ \E k \in 0..Len(text) :
             /\ files' = [files EXCEPT !.output = File(files.output.data \o SubSeq(text, 1, k))]
             /\ Raise("output")

\* line 43: the end of the with block
CloseOutput ==
    /\ Running /\ pc = "close_output"
    /\ handles' = with_exit(handles, "output", FALSE)
    /\ pc' = "stats"
    /\ UNCHANGED <<argc, flag, files, files0, text, stats, expected, exit_status>>

\* lines 46-72 and the report of lines 155-161
Stats ==
    /\ Running /\ pc = "stats"
    /\ stats' = clean_stats(text)
    /\ pc' = "report"
    /\ UNCHANGED <<argc, flag, files, files0, handles, text, expected, exit_status>>

\* line 164, taken: the call of generate_expected_json
Generate ==
    /\ Running /\ pc = "report" /\ argc >= 5 /\ flag
    /\ pc' = "open_text"
    /\ UNCHANGED <<argc, flag, files, files0, handles, text, stats, expected, exit_status>>

\* line 164, not taken: main returns
Finish ==
    /\ Running /\ pc = "report" /\ ~(argc >= 5 /\ flag)
    /\ exit_status' = 0
    /\ UNCHANGED <<argc, flag, pc, files, files0, handles, text, stats, expected>>

\* line 79: open(text_path, 'r')
OpenText ==
    /\ Running /\ pc = "open_text"
    /\ \/ /\ files.output.exists
          /\ handles' = Append(handles, "output")
          /\ pc' = "read_text"
          /\ UNCHANGED <<argc, flag, files, files0, text, stats, expected, exit_status>>
       \/ Raise("none") /\ UNCHANGED files

\* line 80: text = f.read()
ReadText ==
    /\ Running /\ pc = "read_text"
    /\ \/ /\ text' = files.output.data
          /\ pc' = "close_text"
          /\ UNCHANGED <<argc, flag, files, files0, handles, stats, expected, exit_status>>
       \/ Raise("output") /\ UNCHANGED files

\* line 79: the end of the with block
CloseText ==
    /\ Running /\ pc = "close_text"
    /\ handles' = with_exit(handles, "output", FALSE)
    /\ pc' = "extract"
    /\ UNCHANGED <<argc, flag, files, files0, text, stats, expected, exit_status>>

\* lines 82-138
Extract ==
    /\ Running /\ pc = "extract"
    /\ expected' = expected_of(text)
    /\ pc' = "open_json"
    /\ UNCHANGED <<argc, flag, files, files0, handles, text, stats, exit_status>>

\* line 140: open(json_path, 'w') creates or truncates the file
OpenJson ==
    /\ Running /\ pc = "open_json"
    /\ \/ /\ files' = [files EXCEPT !.json = open_w(files.json)]
          /\ handles' = Append(handles, "json")
          /\ pc' = "dump_json"
          /\ UNCHANGED <<argc, flag, files0, text, stats, expected, exit_status>>
       \/ Raise("none") /\ UNCHANGED files

\* line 141: json.dump(expected, f, ...); a write that fails leaves nothing
\* or a part of the document
DumpJson ==
    /\ Running /\ pc = "dump_json"
    /\ \/ /\ files' = [files EXCEPT !.json = File(files.json.data \o <<expected>>)]
          /\ pc' = "close_json"
          /\ UNCHANGED <<argc, flag, files0, handles, text, stats, expected, exit_status>>
       \/ \E part \in {<<>>, <<PartOfDocument>>} :
             /\ files' = [files EXCEPT !.json = File(files.json.data \o part)]
             /\ Raise("json")

\* line 140: the end of the with block, then main returns (line 168)
CloseJson ==
    /\ Running /\ pc = "close_json"
    /\ handles' = with_exit(handles, "json", FALSE)
    /\ exit_status' = 0
    /\ UNCHANGED <<argc, flag, pc, files, files0, text, stats, expected>>

\* one step of a run of main
Next ==
    \/ Usage \/ Start
    \/ OpenInput \/ ReadInput \/ CloseInput \/ Clean
    \/ OpenOutput \/ WriteOutput \/ CloseOutput \/ Stats
    \/ Generate \/ Finish
    \/ OpenText \/ ReadText \/ CloseText \/ Extract
    \/ OpenJson \/ DumpJson \/ CloseJson

----------------------------------------------------------------------------
(* The two stages as functions of the text                                 *)

\* clean_gdpr_text(input_path, output_path) with no I/O failure
ApplyNormalizer ==
    /\ pc = "raw"
    /\ text' = clean_text(files.input.data)
    /\ files' = [files EXCEPT !.output = File(text')]
    /\ stats' = clean_stats(text')
    /\ pc' = "cleaned"
    /\ UNCHANGED <<argc, flag, files0, handles, expected, exit_status>>

\* the transformation steps of lines 23-40 run on the cleaned text
ReapplyNormalizer ==
    /\ pc = "cleaned"
    /\ text' = clean_text(files.output.data)
    /\ pc' = "renormalized"
    /\ UNCHANGED <<argc, flag, files, files0, handles, stats, expected, exit_status>>

\* generate_expected_json(output_path, json_path) with no I/O failure
ApplyExtractor ==
    /\ pc = "cleaned"
    /\ text' = files.output.data
    /\ expected' = expected_of(text')
    /\ files' = [files EXCEPT !.json = File(<<expected'>>)]
    /\ pc' = "extracted"
    /\ UNCHANGED <<argc, flag, files0, handles, stats, exit_status>>

NextFn == ApplyNormalizer \/ ReapplyNormalizer \/ ApplyExtractor

----------------------------------------------------------------------------
(* Inputs                                                                  *)

RECURSIVE Flatten(_)
\* the text made of the tokens ts
Flatten(ts) == IF ts = <<>> THEN <<>> ELSE Head(ts) \o Flatten(Tail(ts))

\* the texts made of at most n tokens
Texts(tokens, n) == {Flatten(ts) : ts \in UNION {[1..k -> tokens] : k \in 0..n}}

MaxArgc == 5

MaxMainTokens == 2

MaxNormTokens == 4

MaxBlankTokens == 6

MaxExtTokens == 5

Marker1 == <<"(", "1", ")">>

Definition1 == Marker1 \o <<"'", "x", "'", NL>>

MainTokens ==
    {<<"+">>, <<"|">>, <<" ">>, <<NL>>, Marker1, <<"a">>,
     Article_ \o <<"4", NL>>, CHAPTER_ \o <<"I", NL>>}

NormTokens ==
    {<<"+">>, <<"-">>, <<"|">>, <<" ">>, <<NL>>, Marker1, <<"a">>}

BlankTokens == {<<NL>>, <<" ">>, Marker1, <<"a">>}

ExtTokens ==
    {Article_ \o <<"4", NL>>, Article_ \o <<"5", NL>>, Article_ \o <<"5">>,
     CHAPTER_ \o <<"I", NL>>, Definition1, <<"t", NL>>, <<NL>>}

\* the state in which sys.argv and the three paths are given
InitWith(inputs, outputs, jsons) ==
    /\ argc \in 1..MaxArgc
    /\ flag \in (IF argc >= 4 THEN BOOLEAN ELSE {FALSE})
    /\ files \in [input : inputs, output : outputs, json : jsons]
    /\ files0 = files
    /\ handles = <<>>
    /\ text = <<>>
    /\ stats = None
    /\ expected = None
    /\ exit_status = -1

Init ==
    /\ pc = "main"
    /\ InitWith({Absent} \cup {File(t) : t \in Texts(MainTokens, MaxMainTokens)},
                {Absent, OldOutput}, {Absent, OldJson})

InitFn(tokens, n) ==
    /\ pc = "raw"
    /\ argc = 5 /\ flag = TRUE
    /\ files \in [input : {File(t) : t \in Texts(tokens, n)}, output : {Absent}, json : {Absent}]
    /\ files0 = files
    /\ handles = <<>>
    /\ text = <<>>
    /\ stats = None
    /\ expected = None
    /\ exit_status = -1

InitNorm == InitFn(NormTokens, MaxNormTokens)

InitBlank == InitFn(BlankTokens, MaxBlankTokens)

InitExt == InitFn(ExtTokens, MaxExtTokens)

\* the runs of main, with an I/O failure possible at every file operation
Spec == Init /\ [][Next]_vars

\* the two stages applied to raw texts of table borders, spaces and markers
SpecNorm == InitNorm /\ [][NextFn]_vars

\* the two stages applied to raw texts of blank lines
SpecBlank == InitBlank /\ [][NextFn]_vars

\* the two stages applied to raw texts of headings and definitions
SpecExt == InitExt /\ [][NextFn]_vars

----------------------------------------------------------------------------
(* The normalizer: C1, C2, C3                                              *)

\* the raw text the run was given
Raw == files0.input.data

\* C1: running the transformation steps on the cleaned text gives the
\* cleaned text again.
C1_Idempotent == pc = "renormalized" => text = files.output.data

\* a horizontal rule: a + followed by one or more + or - and a closing +
HasRule(t) == \E i \in 1..Len(t) : RuleEnd(t, i) > 0

RECURSIVE RowCells(_, _)
\* the cells of a table row: the maximal runs of characters that are
\* neither a bar nor a space
RowCells(row, i) ==
    IF i > Len(row) THEN <<>>
    ELSE IF row[i] \in {"|", " "} THEN RowCells(row, i + 1)
    ELSE LET e == FirstIn(row, i, {"|", " "}) - 1
         IN  <<SubSeq(row, i, e)>> \o RowCells(row, e + 1)

RECURSIVE JoinCells(_)
JoinCells(cells) ==
    IF cells = <<>> THEN <<>>
    ELSE IF Len(cells) = 1 THEN cells[1]
    ELSE cells[1] \o <<" ">> \o JoinCells(Tail(cells))

\* a single line of cells, spaces and bars in which every bar stands apart
\* from the cell text by a space, as in | A | B |
IsRow(raw) ==
    /\ raw # <<>>
    /\ \A k \in 1..Len(raw) : raw[k] \in {"|", " ", "a"}
    /\ \A k \in 1..Len(raw) :
          raw[k] = "|" =>
             /\ k = 1 \/ raw[k - 1] = " "
             /\ k = Len(raw) \/ raw[k + 1] = " "

\* C2: the cleaned text holds no vertical bar and no horizontal rule, and a
\* row of cells separated by bars comes out as the cells joined by one space.
C2_NoBorders ==
    pc = "cleaned" =>
        /\ \A k \in 1..Len(text) : text[k] # "|"
        /\ ~HasRule(text)
        /\ IsRow(Raw) => text = JoinCells(RowCells(Raw, 1))

\* the lines of the raw text, and each of them after lines 24-29
RawLines == split(Raw, 1)

Cleaned(k) == clean_line(sub_bars(sub_rules(RawLines[k], 1)))

\* lines i and j are not blank and every line between them is, one at least
Gap(i, j) ==
    /\ j - i >= 2
    /\ Cleaned(i) # <<>> /\ Cleaned(j) # <<>>
    /\ \A k \in (i + 1)..(j - 1) : Cleaned(k) = <<>>

\* line j is not blank and every line before it is, one at least
LeadingGap(j) ==
    /\ j >= 2
    /\ Cleaned(j) # <<>>
    /\ \A k \in 1..(j - 1) : Cleaned(k) = <<>>

\* the raw text up to line i, and from line j on
UpTo(i) == join(SubSeq(RawLines, 1, i))

From(j) == join(SubSeq(RawLines, j, Len(RawLines)))

\* the line is a recital marker and nothing else: (12)
BareMarker(line) == line # <<>> /\ MarkerEnd(line, 1) = Len(line)

\* C3 as stated: three or more blank lines, anywhere in the raw text, come
\* out as exactly one blank line, and one blank line between two lines
\* stays one blank line.
C3_BlankLinesAnywhere ==
    pc = "cleaned" =>
        /\ \A i \in 1..Len(RawLines) : \A j \in 1..Len(RawLines) :
              (Gap(i, j) /\ (j - i - 1 >= 3 \/ j - i - 1 = 1)) =>
                  text = clean_text(UpTo(i)) \o <<NL, NL>> \o clean_text(From(j))
        /\ \A j \in 1..Len(RawLines) :
              (LeadingGap(j) /\ j - 1 >= 3) =>
                  text = <<NL>> \o clean_text(From(j))

\* C3 as amended: one or more blank lines between two lines that are not
\* blank come out as exactly one blank line, unless the line before them is
\* a bare recital marker, which takes the next line up after one space;
\* blank lines before the first line that is not blank are removed.
C3_BlankLinesBetween ==
    pc = "cleaned" =>
        /\ \A i \in 1..Len(RawLines) : \A j \in 1..Len(RawLines) :
              Gap(i, j) =>
                  text = clean_text(UpTo(i))
                         \o (IF BareMarker(Cleaned(i)) THEN <<>> ELSE <<NL, NL>>)
                         \o clean_text(From(j))
        /\ \A j \in 1..Len(RawLines) :
              LeadingGap(j) => text = clean_text(From(j))

\* three blank lines between two lines of text have been cleaned
C3_Witness ==
    /\ pc = "cleaned"
    /\ \E i \in 1..Len(RawLines) : \E j \in 1..Len(RawLines) :
          Gap(i, j) /\ j - i - 1 >= 3 /\ ~BareMarker(Cleaned(i))

----------------------------------------------------------------------------
(* The extractor: C4, C5, C6, C7, C10                                      *)

\* a heading: a line that is Article and the digits ds, and nothing else
IsHeading(t, i, ds) ==
    /\ LineStart(t, i)
    /\ HasAt(t, i, Article_ \o ds)
    /\ LineEnd(t, i + Len(Article_ \o ds))

\* where the first heading Article ds starts, 0 when the text has none
FirstHeading(t, ds) ==
    LET at == {i \in 1..Len(t) : IsHeading(t, i, ds)}
    IN  IF at = {} THEN 0 ELSE SetMin(at)

\* where in the text the matches the definitions list is made of start
DefinitionPlaces(t) ==
    LET art4_start == find(t, <<NL>> \o Article_ \o <<"4", NL>>)
        starts     == definition_starts(art4_content(t), 1)
    IN  {art4_start + starts[k] - 1 : k \in 1..Len(starts)}

\* C4: no entry of the definitions list comes from a match that starts
\* before the first heading Article 4 or at or after the first heading
\* Article 5, wherever in the text these headings are.
C4_DefinitionsScoped ==
    pc = "extracted" =>
        LET a4 == FirstHeading(text, <<"4">>)
            a5 == FirstHeading(text, <<"5">>)
        IN  \A p \in DefinitionPlaces(text) :
                /\ a4 # 0 => p >= a4
                /\ a5 # 0 => p < a5

\* the headings Article N of the text: where each starts
Headings(t) == {i \in 1..Len(t) : ArticleHead(t, i) > 0 /\ LineEnd(t, ArticleHead(t, i) + 1)}

HeadingNumber(t, i) == ToInt(SubSeq(t, i + Len(Article_), ArticleHead(t, i)))

\* the title line of the heading at i: the first line after it that is not
\* empty, and nothing when the text ends first
TitleLine(t, i) ==
    LET s == RunEnd(t, ArticleHead(t, i) + 1, {NL}) + 1
    IN  strip(SubSeq(t, s, FirstIn(t, s, {NL}) - 1))

\* C5: the articles list has strictly ascending numbers, and the title of
\* each entry is the title line of the first heading with that number.
C5_FirstHeadingTitle ==
    pc = "extracted" =>
        LET arts == expected.articles
        IN  /\ \A k \in 1..(Len(arts) - 1) : arts[k].number < arts[k + 1].number
            /\ \A k \in 1..Len(arts) :
                  LET same == {i \in Headings(text) : HeadingNumber(text, i) = arts[k].number}
                  IN  same # {} /\ arts[k].title = TitleLine(text, SetMin(same))

\* C6: when the first heading Article 5 comes after the first heading
\* Article 4, the definitions list is every match between the two, in scan
\* order and with duplicates.
C6_DefinitionsComplete ==
    pc = "extracted" =>
        LET a4 == FirstHeading(text, <<"4">>)
            a5 == FirstHeading(text, <<"5">>)
        IN  (a4 # 0 /\ a5 > a4) =>
                expected.definitions = definitions_of(SubSeq(text, a4, a5 - 1), 1)

\* the text from s up to the next blank line or the end of the text
Block(t, s) ==
    LET ends == {k \in s..Len(t) : HasAt(t, k, <<NL, NL>>)}
    IN  SubSeq(t, s, IF ends = {} THEN Len(t) ELSE SetMin(ends) - 1)

RECURSIVE TitledChapters(_, _)
\* one entry for each heading CHAPTER X that one blank line and then text
\* follow, from index i on
TitledChapters(t, i) ==
    IF i > Len(t) THEN <<>>
    ELSE LET e == ChapterHead(t, i)
         IN  IF e > 0 /\ HasAt(t, e + 1, <<NL, NL>>) /\ e + 3 <= Len(t) /\ t[e + 3] # NL
             THEN <<[number |-> SubSeq(t, i + Len(CHAPTER_), e),
                     title  |-> strip(Block(t, e + 3))]>> \o TitledChapters(t, i + 1)
             ELSE TitledChapters(t, i + 1)

\* C7: every heading CHAPTER X followed by one blank line and then text
\* gives one chapter entry, in scan order, whose title is that text up to
\* the next blank line or the end of the text.
C7_ChapterTitles == pc = "extracted" => expected.chapters = TitledChapters(text, 1)

\* C10: the number of articles in the normalizer's statistics is the
\* length of the extractor's articles list.
C10_StagesAgree == pc = "extracted" => stats.articles = expected.statistics.articles

----------------------------------------------------------------------------
(* The run of main: C8, C9                                                 *)

\* the file object that is open at each position of a run
HandleAt(at) ==
    IF at \in {"read_input", "close_input"} THEN <<"input">>
    ELSE IF at \in {"write_output", "close_output", "read_text", "close_text"} THEN <<"output">>
    ELSE IF at \in {"dump_json", "close_json"} THEN <<"json">>
    ELSE <<>>

\* C8: at most one file object is open at any moment, each is closed before
\* the next is opened, and none is open when the run has ended, with or
\* without an error.
C8_OneHandle ==
    /\ Len(handles) <= 1
    /\ Running => handles = HandleAt(pc)
    /\ ~Running => handles = <<>>

\* the run ended on a failed write of the JSON file
C8_Witness == exit_status = 1 /\ pc = "dump_json" /\ handles = <<>>

Requested == argc >= 5 /\ flag

IsPrefix(p, t) == Len(p) <= Len(t) /\ p = SubSeq(t, 1, Len(p))

\* every output main was asked for is written
Complete ==
    /\ files.input = files0.input
    /\ files.output = File(clean_text(Raw))
    /\ files.json = IF Requested THEN File(<<expected_of(clean_text(Raw))>>) ELSE files0.json

\* C9 as stated: the run ends with status zero and every requested output
\* written, or with another status and no output file written or modified.
C9_AllOrNothing ==
    /\ exit_status = 0 => Complete
    /\ exit_status \notin {-1, 0} => files = files0

\* C9 as amended: the run ends with status zero and every requested output
\* written, or with another status; then no file is modified when the
\* arguments are too few or opening or reading the input or opening the
\* output failed, and otherwise the output file holds a part of the cleaned
\* text (after a failed write) or all of it, and the JSON file is as it
\* was, or holds nothing or a part of the document after its own write
\* failed.
C9_NothingOnlyBeforeOutput ==
    /\ exit_status = 0 => Complete
    /\ exit_status \notin {-1, 0} =>
          /\ files.input = files0.input
          /\ pc \in {"main", "open_input", "read_input", "open_output"} => files = files0
          /\ pc = "write_output" =>
                /\ files.output.exists /\ IsPrefix(files.output.data, clean_text(Raw))
                /\ files.json = files0.json
          /\ pc \in {"open_text", "read_text", "open_json"} =>
                /\ files.output = File(clean_text(Raw))
                /\ files.json = files0.json
          /\ pc = "dump_json" =>
                /\ files.output = File(clean_text(Raw))
                /\ files.json \in {Truncated, File(<<PartOfDocument>>)}
          /\ pc \in {"main", "open_input", "read_input", "open_output", "write_output",
                      "open_text", "read_text", "open_json", "dump_json"}

\* the run ended on a failure after the output file was written
C9_Witness ==
    /\ exit_status = 1 /\ pc = "open_json"
    /\ files0.output = OldOutput /\ files.output # files0.output

====
